---- MODULE Spec2Model ----
(***************************************************************************)
(* Inbound HTTP policy enforcement of linkerd2-proxy:                      *)
(*   - linkerd/http-routes/src/lib.rs       route selection (find)         *)
(*   - linkerd/app/inbound/src/policy/http.rs  HttpPolicyService           *)
(*   - linkerd/server-policy/src/lib.rs     ServerPolicy and its ingestion *)
(*                                                                         *)
(* Hostnames and paths are sequences of labels / segments, identities are  *)
(* sequences of labels, client addresses are IpBits-bit integers.          *)
(***************************************************************************)
EXTENDS Naturals, Sequences, FiniteSets

\* ------------------------------------------------------------------ bounds

\* Longest route table, longest authorization list of a route, and the width
\* of a client address, in the drawn inputs.
MaxRoutes == 2
MaxAuthz == 2
IpBits == 2

\* ------------------------------------------------------------------ options

None == [some |-> FALSE]
Some(v) == [some |-> TRUE, val |-> v]

\* Ok / Err of a Result.
Ok(v) == [ok |-> TRUE, val |-> v]
Err(e) == [ok |-> FALSE, err |-> e]

\* All sequences over S of length lo..hi.
SeqsOf(S, lo, hi) == UNION {[1..n -> S] : n \in lo..hi}

\* Lexicographic "less than" on two equally long sequences of naturals.
RECURSIVE LexLess(_, _)
LexLess(a, b) ==
    IF a = <<>> \/ b = <<>> THEN FALSE
    ELSE IF Head(a) # Head(b) THEN Head(a) < Head(b)
    ELSE LexLess(Tail(a), Tail(b))

\* s is a suffix of t.
IsSuffix(s, t) ==
    /\ Len(s) <= Len(t)
    /\ \A i \in 1..Len(s) : s[i] = t[Len(t) - Len(s) + i]

\* s is a prefix of t.
IsPrefix(s, t) ==
    /\ Len(s) <= Len(t)
    /\ \A i \in 1..Len(s) : s[i] = t[i]

\* ------------------------------------------------------------------ matchers

\* HostMatch: Exact outranks Suffix; within a kind the longer host wins.
HostMatchRank(hm) ==
    IF hm.kind = "Exact" THEN <<2, hm.len>> ELSE <<1, hm.len>>

\* Option<HostMatch>: None is below every Some.
OptHostRank(oh) ==
    IF oh.some THEN HostMatchRank(oh.val) ELSE <<0, 0>>

\* MatchHost::summarize_match: an exact host matches the request's host as a
\* whole, a "*." wildcard matches every host that ends with its labels.
MatchHostSummarize(mh, req) ==
    IF mh.kind = "Exact"
    THEN IF mh.labels = req.host
         THEN Some([kind |-> "Exact", len |-> Len(mh.labels)])
         ELSE None
    ELSE IF IsSuffix(mh.labels, req.host) /\ Len(mh.labels) < Len(req.host)
         THEN Some([kind |-> "Suffix", len |-> Len(mh.labels)])
         ELSE None

\* PathMatch: Exact > Prefix (the longer the more specific) > absent.
PathMatchRank(pm) ==
    IF pm.kind = "Exact" THEN <<2, pm.len>>
    ELSE IF pm.kind = "Prefix" THEN <<1, pm.len>>
    ELSE <<0, 0>>

\* RequestMatch: the path match first, then the number of header predicates.
RequestMatchRank(rm) == PathMatchRank(rm.path) \o <<rm.headers>>

\* RequestMatch::default(): no path match, no header predicate.
DefaultRequestMatch == [path |-> [kind |-> "Absent", len |-> 0], headers |-> 0]

\* MatchRequest::summarize_match: every predicate of the matcher must hold
\* (path and all headers); the summary is the specificity of the match.
MatchRequestSummarize(mr, req) ==
    LET pathOk ==
            \/ mr.path.kind = "Absent"
            \/ mr.path.kind = "Exact" /\ mr.path.segs = req.path
            \/ mr.path.kind = "Prefix" /\ IsPrefix(mr.path.segs, req.path)
        headersOk == mr.headers \subseteq req.headers
    IN  IF pathOk /\ headersOk
        THEN Some([path |-> [kind |-> mr.path.kind,
                             len |-> IF mr.path.kind = "Absent" THEN 0
                                     ELSE Len(mr.path.segs)],
                   headers |-> Cardinality(mr.headers)])
        ELSE None

\* ------------------------------------------------------------------ ordering

\* #[derive(PartialOrd, Ord)] on HttpRouteMatch { host, request }: the fields
\* are compared in declaration order.
\* The order of a struct whose fields were declared request first, host second.
HttpRouteMatchRankRequestFirst(m) == RequestMatchRank(m.request) \o OptHostRank(m.host)

HttpRouteMatchRank(m) == OptHostRank(m.host) \o RequestMatchRank(m.request)

HttpRouteMatchLess(m0, m) == LexLess(HttpRouteMatchRank(m0), HttpRouteMatchRank(m))

RequestMatchLess(m0, m) == LexLess(RequestMatchRank(m0), RequestMatchRank(m))

\* Iterator::max over a sequence of Option<HostMatch> after filter_map.
RECURSIVE MaxHostMatch(_)
MaxHostMatch(s) ==
    IF s = <<>> THEN None
    ELSE LET rest == MaxHostMatch(Tail(s))
         IN  IF ~Head(s).some THEN rest
             ELSE IF ~rest.some THEN Head(s)
             ELSE IF LexLess(HostMatchRank(rest.val), HostMatchRank(Head(s).val))
                  THEN Head(s) ELSE rest

\* Iterator::max over a sequence of Option<RequestMatch> after filter_map.
RECURSIVE MaxRequestMatch(_)
MaxRequestMatch(s) ==
    IF s = <<>> THEN None
    ELSE LET rest == MaxRequestMatch(Tail(s))
         IN  IF ~Head(s).some THEN rest
             ELSE IF ~rest.some THEN Head(s)
             ELSE IF RequestMatchLess(rest.val, Head(s).val) THEN Head(s) ELSE rest

\* ------------------------------------------------------------------ find

\* The closure of the rule filter_map in HttpRoute::find: an empty match list
\* is an implicit default match, otherwise the best of the matches that apply.
RuleMatch(rule, req) ==
    IF rule.matches = <<>> THEN Some(DefaultRequestMatch)
    ELSE MaxRequestMatch([k \in 1..Len(rule.matches) |->
                              MatchRequestSummarize(rule.matches[k], req)])

\* .reduce(|(m0, p0), (m, p)| if m0 < m { (m, p) } else { (m0, p0) }) over
\* the rules that matched: acc is the incumbent, j the next rule to look at.
RECURSIVE ReduceRulesStrict(_, _, _, _)
ReduceRulesStrict(rules, req, j, acc) ==
    IF j > Len(rules) THEN acc
    ELSE LET m == RuleMatch(rules[j], req)
             cand == Some([request |-> m.val, policy |-> rules[j].policy])
         IN  IF ~m.some THEN ReduceRulesStrict(rules, req, j + 1, acc)
             ELSE IF ~acc.some THEN ReduceRulesStrict(rules, req, j + 1, cand)
             ELSE IF RequestMatchLess(acc.val.request, m.val)
                  THEN ReduceRulesStrict(rules, req, j + 1, cand)
                  ELSE ReduceRulesStrict(rules, req, j + 1, acc)

\* The same reduction replacing the incumbent on ties as well (max_by).
RECURSIVE ReduceRulesLast(_, _, _, _)
ReduceRulesLast(rules, req, j, acc) ==
    IF j > Len(rules) THEN acc
    ELSE LET m == RuleMatch(rules[j], req)
             cand == Some([request |-> m.val, policy |-> rules[j].policy])
         IN  IF ~m.some THEN ReduceRulesLast(rules, req, j + 1, acc)
             ELSE IF ~acc.some THEN ReduceRulesLast(rules, req, j + 1, cand)
             ELSE IF ~RequestMatchLess(m.val, acc.val.request)
                  THEN ReduceRulesLast(rules, req, j + 1, cand)
                  ELSE ReduceRulesLast(rules, req, j + 1, acc)

\* The same reduction never replacing the incumbent (first match wins).
RECURSIVE ReduceRulesFirst(_, _, _, _)
ReduceRulesFirst(rules, req, j, acc) ==
    IF j > Len(rules) THEN acc
    ELSE LET m == RuleMatch(rules[j], req)
             cand == Some([request |-> m.val, policy |-> rules[j].policy])
         IN  IF ~m.some THEN ReduceRulesFirst(rules, req, j + 1, acc)
             ELSE IF ~acc.some THEN ReduceRulesFirst(rules, req, j + 1, cand)
             ELSE ReduceRulesFirst(rules, req, j + 1, acc)

ReduceRules(rules, req, j, acc) == ReduceRulesStrict(rules, req, j, acc)

\* The host of HttpRoute::find: None for a route without hosts, otherwise the
\* best host match; a route with hosts of which none matches is excluded.
RouteHost(rt, req) ==
    IF rt.hosts = <<>> THEN Some(None)
    ELSE LET hm == MaxHostMatch([k \in 1..Len(rt.hosts) |->
                                     MatchHostSummarize(rt.hosts[k], req)])
         IN  IF hm.some THEN Some(hm) ELSE None

\* HttpRoute::find
RouteFind(rt, req) ==
    LET host == RouteHost(rt, req)
        best == ReduceRules(rt.rules, req, 1, None)
    IN  IF ~host.some \/ ~best.some THEN None
        ELSE Some([m |-> [host |-> host.val, request |-> best.val.request],
                   policy |-> best.val.policy])

\* The reduction of HttpRoutes::find over the routes that matched.
RECURSIVE ReduceRoutesStrict(_, _, _, _)
ReduceRoutesStrict(rts, req, i, acc) ==
    IF i > Len(rts) THEN acc
    ELSE LET c == RouteFind(rts[i], req)
         IN  IF ~c.some THEN ReduceRoutesStrict(rts, req, i + 1, acc)
             ELSE IF ~acc.some THEN ReduceRoutesStrict(rts, req, i + 1, c)
             ELSE IF HttpRouteMatchLess(acc.val.m, c.val.m)
                  THEN ReduceRoutesStrict(rts, req, i + 1, c)
                  ELSE ReduceRoutesStrict(rts, req, i + 1, acc)

\* The same reduction comparing the request match alone (the host ignored).
RECURSIVE ReduceRoutesNoHost(_, _, _, _)
ReduceRoutesNoHost(rts, req, i, acc) ==
    IF i > Len(rts) THEN acc
    ELSE LET c == RouteFind(rts[i], req)
         IN  IF ~c.some THEN ReduceRoutesNoHost(rts, req, i + 1, acc)
             ELSE IF ~acc.some THEN ReduceRoutesNoHost(rts, req, i + 1, c)
             ELSE IF RequestMatchLess(acc.val.m.request, c.val.m.request)
                  THEN ReduceRoutesNoHost(rts, req, i + 1, c)
                  ELSE ReduceRoutesNoHost(rts, req, i + 1, acc)

ReduceRoutes(rts, req, i, acc) == ReduceRoutesStrict(rts, req, i, acc)

\* HttpRoutes::find
Find(rts, req) == ReduceRoutes(rts, req, 1, None)

\* ------------------------------------------------------------------ authorization

RECURSIVE Pow2(_)
Pow2(n) == IF n = 0 THEN 1 ELSE 2 * Pow2(n - 1)

\* A network addr/len contains the addresses that share its first len bits.
NetContains(net, ip) ==
    (ip \div Pow2(IpBits - net.len)) = (net.addr \div Pow2(IpBits - net.len))

\* A configured network matches an address inside it and outside of all of
\* its exceptions.
NetworkMatches(nw, ip) ==
    /\ NetContains(nw.net, ip)
    /\ \A k \in 1..Len(nw.except) : ~NetContains(nw.except[k], ip)

\* The authentication half of is_authorized.
AuthenticationMatches(authn, tls) ==
    IF authn.kind = "Unauthenticated" THEN TRUE
    ELSE IF authn.kind = "TlsUnauthenticated" THEN tls.kind = "Established"
    ELSE /\ tls.kind = "Established"
         /\ tls.client_id.some
         /\ \/ tls.client_id.val \in authn.identities
            \/ \E sfx \in authn.suffixes : IsSuffix(sfx, tls.client_id.val)

\* is_authorized(authz, client, tls): network AND authentication.
IsAuthorized(a, client, tls) ==
    /\ \E k \in 1..Len(a.networks) : NetworkMatches(a.networks[k], client)
    /\ AuthenticationMatches(a.authentication, tls)

\* route.authorizations.iter().find(|a| is_authorized(..)): the index of the
\* first authorizing entry at or after k, 0 when there is none.
RECURSIVE AuthzScan(_, _, _, _)
AuthzScan(authzs, client, tls, k) ==
    IF k > Len(authzs) THEN 0
    ELSE IF IsAuthorized(authzs[k], client, tls) THEN k
    ELSE AuthzScan(authzs, client, tls, k + 1)

\* The scan looking at the first entry only.
AuthzFindHeadOnly(authzs, client, tls) ==
    IF authzs # <<>> /\ IsAuthorized(authzs[1], client, tls) THEN 1 ELSE 0

\* The scan falling back to the first entry when none authorizes.
AuthzFindOrFirst(authzs, client, tls) ==
    LET k == AuthzScan(authzs, client, tls, 1)
    IN  IF k = 0 /\ authzs # <<>> THEN 1 ELSE k

\* The scan keeping the last entry that authorizes.
AuthzFindLast(authzs, client, tls) ==
    LET ks == {k \in 1..Len(authzs) : IsAuthorized(authzs[k], client, tls)}
    IN  IF ks = {} THEN 0 ELSE CHOOSE k \in ks : \A j \in ks : j <= k

AuthzFind(authzs, client, tls) == AuthzScan(authzs, client, tls, 1)

\* ------------------------------------------------------------------ policy

HttpKinds == {"Detect", "Http1", "Http2"}

\* AllowPolicy::routes on a value of the watch: the route table of the
\* protocol variant, none for Opaque and Tls.
AllowPolicyRoutes(sp) ==
    IF sp.protocol.kind \in HttpKinds
    THEN Some([kind |-> "Http", routes |-> sp.protocol.routes])
    ELSE IF sp.protocol.kind = "Grpc"
    THEN Some([kind |-> "Grpc", routes |-> sp.protocol.routes])
    ELSE None

\* A service that keeps the routes it read first.
ReadRoutesOnce(last, sp) == IF last.some THEN last ELSE AllowPolicyRoutes(sp)

\* self.policy.routes() in call: the routes of the value that the watch holds
\* now; last is what the call before read.
ReadRoutes(last, sp) == AllowPolicyRoutes(sp)

\* AllowPolicy::server_label on a value of the watch.
AllowPolicyServerLabel(sp) == sp.meta

\* ------------------------------------------------------------------ ingestion

\* Meta::try_new_with_default. A label value is a sequence of the parts that
\* ':' separates, so <<"default", "deny">> stands for "default:deny".
TryNewWithDefault(labels, default_group, default_kind) ==
    IF ~labels.name.some THEN Err("Name")
    ELSE LET name == labels.name.val
             group == IF labels.group.some THEN labels.group.val ELSE default_group
         IN  IF labels.kind.some
             THEN Ok([variant |-> "Resource", group |-> group,
                      kind |-> labels.kind.val, name |-> name])
             ELSE IF Len(name) > 1
             THEN Ok([variant |-> "Resource", group |-> group,
                      kind |-> Head(name), name |-> Tail(name)])
             ELSE Ok([variant |-> "Resource", group |-> group,
                      kind |-> default_kind, name |-> name])

\* routes.into_iter().map(try_route).collect::<Result<Arc<[_]>, _>>(): the
\* converted routes, or the error of the first route that does not convert.
TryRoutes(wire, e) ==
    IF \E k \in 1..Len(wire) : ~wire[k].valid THEN Err(e)
    ELSE Ok([k \in 1..Len(wire) |-> wire[k].route])

\* authz::proto::mk_authorizations
MkAuthorizations(wire) ==
    IF \E k \in 1..Len(wire) : ~wire[k].valid THEN Err("Authz")
    ELSE Ok([k \in 1..Len(wire) |-> wire[k].authz])

\* The protocol match of TryFrom<api::Server> for ServerPolicy.
TryProtocol(proto) ==
    IF ~proto.protocol.some \/ ~proto.protocol.val.kind.some
    THEN Err("MissingProxyProtocol")
    ELSE LET kind == proto.protocol.val.kind.val
         IN  IF kind.tag = "Detect"
             THEN LET http == TryRoutes(kind.routes, "HttpRoute")
                  IN  IF ~http.ok THEN http
                      ELSE IF ~kind.timeout.some THEN Err("MissingDetectTimeout")
                      ELSE IF kind.timeout.val.negative THEN Err("NegativeDetectTimeout")
                      ELSE Ok([kind |-> "Detect", routes |-> http.val,
                               timeout |-> kind.timeout.val.secs])
             ELSE IF kind.tag \in {"Http1", "Http2"}
             THEN LET http == TryRoutes(kind.routes, "HttpRoute")
                  IN  IF ~http.ok THEN http
                      ELSE Ok([kind |-> kind.tag, routes |-> http.val])
             ELSE IF kind.tag = "Grpc"
             THEN LET grpc == TryRoutes(kind.routes, "GrpcRoute")
                  IN  IF ~grpc.ok THEN grpc
                      ELSE Ok([kind |-> "Grpc", routes |-> grpc.val])
             ELSE Ok([kind |-> kind.tag])

\* TryFrom<api::Server> for ServerPolicy
TryFromServer(proto) ==
    LET protocol == TryProtocol(proto)
        authorizations == MkAuthorizations(proto.authorizations)
        meta == TryNewWithDefault(proto.labels, "policy.linkerd.io", "server")
    IN  IF ~protocol.ok THEN protocol
        ELSE IF ~authorizations.ok THEN authorizations
        ELSE IF ~meta.ok THEN Err("Meta")
        ELSE Ok([protocol |-> protocol.val,
                 authorizations |-> authorizations.val,
                 meta |-> meta.val])

\* ------------------------------------------------------------------ middleware

\* mk_route_not_found returning the error without the metrics call.
MkRouteNotFoundSilent(label, conn) ==
    [res |-> Err("HttpRouteNotFound"), records |-> <<>>]

\* metrics.route_not_found(labels, dst, tls) and the error of
\* mk_route_not_found; label is what server_label() returns there.
MkRouteNotFound(label, conn) ==
    [res |-> Err("HttpRouteNotFound"),
     records |-> <<[kind |-> "route_not_found", server |-> label,
                    dst |-> conn.dst, tls |-> conn.tls]>>]

\* The part of HttpPolicyService::authorize after the route is found: the
\* labels, the scan of the route's authorizations, the deny or allow record.
AuthorizeRoute(route, conn, label) ==
    LET labels == [route |-> route.meta, server |-> label]
        k == AuthzFind(route.authorizations, conn.client, conn.tls)
    IN  IF k = 0
        THEN [res |-> Err("HttpRouteUnauthorized"),
              records |-> <<[kind |-> "deny", labels |-> labels,
                             dst |-> conn.dst, tls |-> conn.tls]>>]
        ELSE LET permit == [dst |-> conn.dst,
                            labels |-> [route |-> labels,
                                        authz |-> route.authorizations[k].meta]]
             IN  [res |-> Ok(permit),
                  records |-> <<[kind |-> "allow", permit |-> permit,
                                 tls |-> conn.tls]>>]

\* authorize letting a request that no route matches through, as the default.
AuthorizePermitUnmatched(rts, req, conn, label) ==
    LET found == Find(rts, req)
    IN  IF found.some THEN AuthorizeRoute(found.val.policy, conn, label)
        ELSE LET permit == [dst |-> conn.dst,
                            labels |-> [route |-> [route |-> label, server |-> label],
                                        authz |-> label]]
             IN  [res |-> Ok(permit),
                  records |-> <<[kind |-> "allow", permit |-> permit,
                                 tls |-> conn.tls]>>]

\* authorize going on, when the route found authorizes nothing, to the first
\* route of the table that matches the request and authorizes the connection.
AuthorizeFallback(rts, req, conn, label) ==
    LET found == Find(rts, req)
        others == {i \in 1..Len(rts) :
                      /\ RouteFind(rts[i], req).some
                      /\ AuthzFind(RouteFind(rts[i], req).val.policy.authorizations,
                                   conn.client, conn.tls) # 0}
    IN  IF ~found.some THEN MkRouteNotFound(label, conn)
        ELSE IF AuthzFind(found.val.policy.authorizations, conn.client, conn.tls) # 0
                \/ others = {}
             THEN AuthorizeRoute(found.val.policy, conn, label)
             ELSE AuthorizeRoute(RouteFind(rts[CHOOSE i \in others : \A k \in others : i <= k],
                                           req).val.policy, conn, label)

\* HttpPolicyService::authorize on the route table read by call; label is
\* what server_label() returns while it runs.
Authorize(rts, req, conn, label) ==
    LET found == Find(rts, req)
    IN  IF ~found.some THEN MkRouteNotFound(label, conn)
        ELSE AuthorizeRoute(found.val.policy, conn, label)

\* The match of HttpPolicyService::call on the routes it read.
CallOutcome(rts, req, conn, label) ==
    IF ~rts.some THEN MkRouteNotFound(label, conn)
    ELSE Authorize(rts.val.routes, req, conn, label)

\* ------------------------------------------------------------------ inputs

FooExampleCom == <<"foo", "example", "com">>
WwwExampleCom == <<"www", "example", "com">>

\* GET http://foo.example.com/foo/bar with x-foo and x-baz, and
\* GET http://www.example.com/bar with x-foo.
ReqFooBar == [host |-> FooExampleCom, path |-> <<"foo", "bar">>,
              headers |-> {"x-foo", "x-baz"}]
ReqWwwBar == [host |-> WwwExampleCom, path |-> <<"bar">>, headers |-> {"x-foo"}]
Requests == {ReqFooBar, ReqWwwBar}

HostExact == [kind |-> "Exact", labels |-> FooExampleCom]
HostWild == [kind |-> "Suffix", labels |-> <<"example", "com">>]
HostWildCom == [kind |-> "Suffix", labels |-> <<"com">>]
HostLists == {<<>>, <<HostExact>>, <<HostWild>>, <<HostWildCom, HostExact>>}

NoPath == [kind |-> "Absent", segs |-> <<>>]
MPrefixFoo == [path |-> [kind |-> "Prefix", segs |-> <<"foo">>], headers |-> {}]
MExactFooBar == [path |-> [kind |-> "Exact", segs |-> <<"foo", "bar">>], headers |-> {}]
MHeader1 == [path |-> NoPath, headers |-> {"x-foo"}]
MHeader2 == [path |-> NoPath, headers |-> {"x-foo", "x-baz"}]

\* The match lists of the rules of one route: two default rules; a prefix
\* and then an exact path; one header and then two; a rule of two matchers and
\* then a default rule.
RuleLists ==
    { << <<>>, <<>> >>,
      << <<MPrefixFoo>>, <<MExactFooBar>> >>,
      << <<MHeader1>>, <<MHeader2>> >>,
      << <<MPrefixFoo, MExactFooBar>>, <<>> >> }

Digits == <<"1", "2", "3", "4", "5">>

ResourceMeta(kind, name) ==
    [variant |-> "Resource", group |-> "policy.linkerd.io", kind |-> kind, name |-> name]

RouteMeta(i, j) == ResourceMeta("HTTPRoute", <<"route", Digits[i], Digits[j]>>)
AuthzMeta(n) == ResourceMeta("AuthorizationPolicy", <<n>>)

AllNets == <<[net |-> [addr |-> 0, len |-> 0], except |-> <<>>]>>

\* Every client, without TLS or with.
AuthzAll == [meta |-> AuthzMeta("all"), networks |-> AllNets,
             authentication |-> [kind |-> "Unauthenticated"]]
\* The clients of the lower half of the addresses save those of its upper
\* quarter, without TLS or with.
AuthzNet == [meta |-> AuthzMeta("net"),
             networks |-> <<[net |-> [addr |-> 0, len |-> 1],
                             except |-> <<[addr |-> Pow2(IpBits - 2), len |-> 2]>>]>>,
             authentication |-> [kind |-> "Unauthenticated"]]
\* Every client with TLS.
AuthzTls == [meta |-> AuthzMeta("tls"), networks |-> AllNets,
             authentication |-> [kind |-> "TlsUnauthenticated"]]
\* The clients with the identity a.ns or one under "other".
AuthzId == [meta |-> AuthzMeta("id"), networks |-> AllNets,
            authentication |-> [kind |-> "TlsAuthenticated",
                                identities |-> {<<"a", "ns">>},
                                suffixes |-> {<<"other">>}]]
AuthzCatalog == {AuthzAll, AuthzNet, AuthzTls, AuthzId}

ClientIps == 0..(Pow2(IpBits) - 1)
TlsStates ==
    { [kind |-> "None"],
      [kind |-> "Established", client_id |-> None],
      [kind |-> "Established", client_id |-> Some(<<"a", "ns">>)],
      [kind |-> "Established", client_id |-> Some(<<"b", "other">>)] }

\* The targets of new_service: the client address and the TLS state.
AllTargets == [client : ClientIps, tls : TlsStates]
Targets ==
    { [client |-> 0, tls |-> [kind |-> "None"]],
      [client |-> Pow2(IpBits) - 1,
       tls |-> [kind |-> "Established", client_id |-> Some(<<"a", "ns">>)]] }

ServerMetaWeb == ResourceMeta("server", <<"web">>)

\* A route of the given hosts whose rule j has the match list ml[j], the
\* meta RouteMeta(i, j) and the authorizations authzs.
MkRoute(i, hosts, ml, authzs) ==
    [hosts |-> hosts,
     rules |-> [j \in 1..Len(ml) |->
                   [matches |-> ml[j],
                    policy |-> [meta |-> RouteMeta(i, j), authorizations |-> authzs]]]]

RouteShapes == [hosts : HostLists, ml : RuleLists]

\* The policies of the route tables of at most MaxRoutes routes over the
\* hosts and rules above, every rule authorizing every client.
FindPolicies ==
    { [protocol |-> [kind |-> "Http1",
                     routes |-> [i \in 1..Len(t) |->
                                    MkRoute(i, t[i].hosts, t[i].ml, <<AuthzAll>>)]],
       authorizations |-> <<>>,
       meta |-> ServerMetaWeb] : t \in SeqsOf(RouteShapes, 0, MaxRoutes) }

\* The policies of one default route with an authorization list of at most
\* MaxAuthz entries.
AuthzPolicies ==
    { [protocol |-> [kind |-> "Http1",
                     routes |-> <<MkRoute(1, <<>>, << <<>> >>, l)>>],
       authorizations |-> <<>>,
       meta |-> ServerMetaWeb] : l \in SeqsOf(AuthzCatalog, 0, MaxAuthz) }

\* api::Server messages of the control plane.
RouteGeneric == MkRoute(1, <<>>, << <<>> >>, <<AuthzNet>>)
RouteSpecific == MkRoute(2, <<HostWild>>, << <<MPrefixFoo>> >>, <<AuthzTls, AuthzId>>)

\* The policies of the tables of at most MaxRoutes routes whose authorization
\* lists differ, under a server whose own list authorizes every client.
RouteGenericTls == MkRoute(3, <<>>, << <<>> >>, <<AuthzTls>>)
FallbackRoutes == {RouteGeneric, RouteSpecific, RouteGenericTls}
FallbackPolicies ==
    { [protocol |-> [kind |-> "Http1", routes |-> t],
       authorizations |-> <<AuthzAll>>,
       meta |-> ServerMetaWeb] : t \in SeqsOf(FallbackRoutes, 1, MaxRoutes) }

WireRoutes ==
    { [valid |-> FALSE, route |-> <<>>],
      [valid |-> TRUE, route |-> RouteGeneric],
      [valid |-> TRUE, route |-> RouteSpecific] }
WireRouteLists == SeqsOf(WireRoutes, 0, MaxRoutes)
WireTimeouts ==
    { None, Some([negative |-> TRUE, secs |-> 1]), Some([negative |-> FALSE, secs |-> 10]) }
\* Http1 carries every route list, the other variants the short ones.
WireKinds ==
    {[tag |-> "Opaque"], [tag |-> "Tls"]}
    \cup {[tag |-> "Detect", timeout |-> t, routes |-> r] :
              t \in WireTimeouts, r \in SeqsOf(WireRoutes, 0, 1)}
    \cup {[tag |-> g, routes |-> r] : g \in {"Http2", "Grpc"}, r \in SeqsOf(WireRoutes, 0, 1)}
    \cup {[tag |-> "Http1", routes |-> r] : r \in WireRouteLists}
WireProtocols == {None, Some([kind |-> None])} \cup {Some([kind |-> Some(k)]) : k \in WireKinds}
NoLabels == [name |-> None, group |-> None, kind |-> None]
WireLabels ==
    { [name |-> Some(<<"web">>), group |-> None, kind |-> None],
      [name |-> Some(<<"default", "deny">>), group |-> None, kind |-> None] }
WireAuthzs == <<[valid |-> TRUE, authz |-> AuthzAll]>>
BadWireAuthzs == <<[valid |-> FALSE, authz |-> <<>>]>>
\* Every protocol with sound authorizations and labels, and the Opaque and
\* Tls messages with an authorization that does not convert or without name.
ApiServers ==
    [protocol : WireProtocols, authorizations : {WireAuthzs}, labels : WireLabels]
    \cup [protocol : {Some([kind |-> Some([tag |-> g])]) : g \in {"Opaque", "Tls"}},
          authorizations : {WireAuthzs, BadWireAuthzs},
          labels : WireLabels \cup {NoLabels}]

\* The message that the policy in force at the start comes from.
InitialServer ==
    [protocol |-> Some([kind |-> Some([tag |-> "Detect",
                                       timeout |-> Some([negative |-> FALSE, secs |-> 10]),
                                       routes |-> <<[valid |-> TRUE, route |-> RouteGeneric]>>])]),
     authorizations |-> WireAuthzs,
     labels |-> [name |-> Some(<<"web">>), group |-> None, kind |-> None]]

\* ------------------------------------------------------------------ state

VARIABLES
    server,   \* the ServerPolicy that the watch of the AllowPolicy holds
    svc,      \* the HttpPolicyService of the connection, if created
    pc,       \* "idle", or "lookup": call has read the routes
    req,      \* the request of the call
    routes,   \* what self.policy.routes() returned to the call
    snap,     \* the server label of the policy that routes() read
    result,   \* what the call returned, once it has
    metrics,  \* the records that the call has emitted
    inner,    \* the (permit, target) pairs that the call has passed to the inner NewService
    prev      \* the request and the kind of outcome of the call before

vars == <<server, svc, pc, req, routes, snap, result, metrics, inner, prev>>

Kind(res) == IF res.ok THEN "Permit" ELSE res.err

NoCall ==
    /\ pc = "idle"
    /\ req = ReqFooBar
    /\ routes = None
    /\ snap = ServerMetaWeb
    /\ result = None
    /\ metrics = <<>>
    /\ inner = <<>>
    /\ prev = None

Init ==
    /\ server = TryFromServer(InitialServer).val
    /\ svc = None
    /\ NoCall

\* NewHttpPolicy::new_service
NewService(t) ==
    /\ pc = "idle"
    /\ svc' = Some([client |-> t.client, tls |-> t.tls, dst |-> "dst", target |-> t])
    /\ pc' = "idle"
    /\ req' = ReqFooBar
    /\ routes' = None
    /\ snap' = ServerMetaWeb
    /\ result' = None
    /\ metrics' = <<>>
    /\ inner' = <<>>
    /\ prev' = None
    /\ UNCHANGED server

\* HttpPolicyService::call up to the return of self.policy.routes()
CallRoutes(r) ==
    /\ svc.some
    /\ pc = "idle"
    /\ pc' = "lookup"
    /\ req' = r
    /\ routes' = ReadRoutes(routes, server)
    /\ snap' = AllowPolicyServerLabel(server)
    /\ prev' = IF result.some THEN Some([req |-> req, kind |-> Kind(result.val)]) ELSE prev
    /\ result' = None
    /\ metrics' = <<>>
    /\ inner' = <<>>
    /\ UNCHANGED <<server, svc>>

\* The rest of HttpPolicyService::call: the match on the routes, authorize
\* or mk_route_not_found, and the inner new_service on a permit.
CallFinish ==
    /\ pc = "lookup"
    /\ LET out == CallOutcome(routes, req, svc.val, AllowPolicyServerLabel(server))
       IN  /\ result' = Some(out.res)
           /\ metrics' = metrics \o out.records
           /\ inner' = IF out.res.ok
                       THEN inner \o <<[permit |-> out.res.val, target |-> svc.val.target]>>
                       ELSE inner
    /\ pc' = "idle"
    /\ UNCHANGED <<server, svc, req, routes, snap, prev>>

\* The policies that ingestion makes of the messages that it accepts.
Discovered == {TryFromServer(m).val : m \in {a \in ApiServers : TryFromServer(a).ok}}

\* The control plane sends a message and the policy p that ingestion makes of
\* it replaces the value of the watch; a message that ingestion refuses
\* changes nothing.
Discover(p) ==
    /\ p # server
    /\ server' = p
    /\ UNCHANGED <<svc, pc, req, routes, snap, result, metrics, inner, prev>>

Next ==
    \/ \E t \in Targets : NewService(t)
    \/ \E r \in Requests : CallRoutes(r)
    \/ CallFinish
    \/ \E p \in Discovered : Discover(p)

Spec == Init /\ [][Next]_vars

\* Evaluation of requests against one policy: the service exists, the policy
\* is drawn from the route tables or from the authorization lists above.
FixedTarget == [client |-> 0, tls |-> [kind |-> "None"]]

ServiceOf(t) == Some([client |-> t.client, tls |-> t.tls, dst |-> "dst", target |-> t])

InitEval ==
    /\ \/ server \in FindPolicies /\ svc = ServiceOf(FixedTarget)
       \/ server \in AuthzPolicies /\ svc \in {ServiceOf(t) : t \in AllTargets}
       \/ server \in FallbackPolicies /\ svc \in {ServiceOf(t) : t \in Targets}
    /\ NoCall

NextEval ==
    \/ \E r \in Requests : CallRoutes(r)
    \/ CallFinish

SpecEval == InitEval /\ [][NextEval]_vars

\* ------------------------------------------------------------------ properties

\* A call has returned.
Done == pc = "idle" /\ result.some

\* The route table that the call read, empty when it read none.
Table == IF routes.some THEN routes.val.routes ELSE <<>>

Conn == svc.val

\* Some entry of the list authorizes the connection.
SomeAuthorizes(authzs) ==
    \E k \in 1..Len(authzs) : IsAuthorized(authzs[k], Conn.client, Conn.tls)

\* The (route, rule) candidates of the table that match the request, and the
\* HttpRouteMatch of each.
Candidates ==
    { c \in UNION {{<<i, j>> : j \in 1..Len(Table[i].rules)} : i \in 1..Len(Table)} :
          /\ RouteHost(Table[c[1]], req).some
          /\ RuleMatch(Table[c[1]].rules[c[2]], req).some }

CandMatch(c) ==
    [host |-> RouteHost(Table[c[1]], req).val,
     request |-> RuleMatch(Table[c[1]].rules[c[2]], req).val]

CandPolicy(c) == Table[c[1]].rules[c[2]].policy

\* The candidates that no candidate is strictly more specific than.
Maximal == {c \in Candidates : \A d \in Candidates : ~HttpRouteMatchLess(CandMatch(c), CandMatch(d))}

\* The route meta that the record of the call names.
Selected ==
    IF metrics[1].kind = "allow" THEN metrics[1].permit.labels.route.route
    ELSE metrics[1].labels.route

\* The call went through a route: it did not fail RouteNotFound.
Routed == Done /\ Kind(result.val) # "HttpRouteNotFound"

\* C1: a permit is returned and the inner service created only for a request
\* for which a route was found and some authorization of that route authorizes
\* the connection; nothing reaches the inner stage before or without that.
PermitOnlyWhenAuthorized ==
    /\ pc = "lookup" => inner = <<>>
    /\ Done =>
         /\ Len(inner) = (IF result.val.ok THEN 1 ELSE 0)
         /\ result.val.ok =>
              /\ inner[1].permit = result.val.val
              /\ routes.some
              /\ \E c \in Candidates :
                    /\ CandPolicy(c).meta = result.val.val.labels.route.route
                    /\ SomeAuthorizes(CandPolicy(c).authorizations)

PermitWitness ==
    /\ Done
    /\ result.val.ok
    /\ Len(inner) = 1
    /\ prev.some /\ prev.val.kind = "HttpRouteUnauthorized"

\* C2: a call that reads a policy without a route table, or with an empty
\* one, fails RouteNotFound and creates no inner service, whoever the client.
FailClosedOnNoRoute ==
    (Done /\ (~routes.some \/ routes.val.routes = <<>>)) =>
        /\ Kind(result.val) = "HttpRouteNotFound"
        /\ inner = <<>>

FailClosedWitness ==
    /\ Done
    /\ routes.some /\ routes.val.routes = <<>>
    /\ SomeAuthorizes(server.authorizations)
    /\ Kind(result.val) = "HttpRouteNotFound"

\* C3: every call reads the routes of the policy that the watch holds when
\* the call is made, and decides by them.
LivePolicyPerRequest ==
    [][ /\ (pc = "idle" /\ pc' = "lookup") => routes' = AllowPolicyRoutes(server)
        /\ (pc = "lookup" /\ pc' = "idle") =>
              /\ routes' = routes
              /\ (Candidates = {}) = (Kind(result'.val) = "HttpRouteNotFound")
              /\ result'.val.ok =>
                    \E c \in Maximal : SomeAuthorizes(CandPolicy(c).authorizations) ]_vars

\* Two calls in a row on one connection with the same request, the outcomes
\* differ.
LivePolicyWitness ==
    /\ Done
    /\ prev.some
    /\ prev.val.req = req
    /\ prev.val.kind # Kind(result.val)

\* C4: the server label of the record and of the permit of a call is the
\* label of the policy whose routes the call read.
OneSnapshotPerRequest ==
    Done =>
        /\ \A n \in 1..Len(metrics) :
              (IF metrics[n].kind = "route_not_found" THEN metrics[n].server
               ELSE IF metrics[n].kind = "deny" THEN metrics[n].labels.server
               ELSE metrics[n].permit.labels.route.server) = snap
        /\ result.val.ok => result.val.val.labels.route.server = snap

\* C5: a call that selects a route returns a permit iff some authorization of
\* the route authorizes the connection and fails Unauthorized iff none does,
\* wherever in the list the authorizing entries stand (the lists drawn are
\* all the sequences of the catalog, so each comes in every order).
AuthorizationIsOr ==
    Routed =>
        LET l == CandPolicy(CHOOSE c \in Candidates : CandPolicy(c).meta = Selected).authorizations
        IN  /\ result.val.ok = SomeAuthorizes(l)
            /\ (Kind(result.val) = "HttpRouteUnauthorized") = ~SomeAuthorizes(l)

AuthorizationIsOrWitness ==
    /\ Routed
    /\ result.val.ok
    /\ LET l == CandPolicy(CHOOSE c \in Candidates : CandPolicy(c).meta = Selected).authorizations
       IN  /\ Len(l) >= 2
           /\ ~IsAuthorized(l[1], Conn.client, Conn.tls)
           /\ IsAuthorized(l[Len(l)], Conn.client, Conn.tls)

\* The matching candidates of route i.
RouteCands(i) == {c \in Candidates : c[1] = i}

\* The best request match of route i is as specific as that of route k.
SameRequestMatch(i, k) ==
    \E c \in RouteCands(i) : \E d \in RouteCands(k) :
        /\ \A e \in RouteCands(i) : ~RequestMatchLess(CandMatch(c).request, CandMatch(e).request)
        /\ \A e \in RouteCands(k) : ~RequestMatchLess(CandMatch(d).request, CandMatch(e).request)
        /\ RequestMatchRank(CandMatch(c).request) = RequestMatchRank(CandMatch(d).request)

HostKindOf(i) ==
    LET h == RouteHost(Table[i], req)
    IN  IF ~h.some THEN "NoMatch" ELSE IF ~h.val.some THEN "NoHosts" ELSE h.val.val.kind

\* The routes a (exact host) and b (wildcard host) contend for the request.
Contend(a, b) ==
    /\ RouteCands(a) # {} /\ RouteCands(b) # {}
    /\ HostKindOf(a) = "Exact" /\ HostKindOf(b) = "Suffix"
    /\ SameRequestMatch(a, b)

SelectedIn(i) == \E c \in RouteCands(i) : CandPolicy(c).meta = Selected

\* C6: of two routes that match the request with equally specific rules, one
\* through an exact host and one through a wildcard host, find does not return
\* the wildcard one, and returns the exact one when no third route matches.
HostPrecedence ==
    Routed =>
        \A a \in 1..Len(Table) : \A b \in 1..Len(Table) :
            Contend(a, b) =>
                /\ ~SelectedIn(b)
                /\ (\A i \in 1..Len(Table) : RouteCands(i) # {} => i \in {a, b}) => SelectedIn(a)

HostPrecedenceWitness ==
    /\ Routed
    /\ \E a \in 1..Len(Table) : \E b \in 1..Len(Table) :
          b < a /\ Contend(a, b) /\ SelectedIn(a)

\* C7: find returns the policy of a matching candidate that no matching
\* candidate of the table is more specific than, and none exactly when no
\* candidate matches.
MaximalSpecificity ==
    Done =>
        /\ (Kind(result.val) = "HttpRouteNotFound") = (Candidates = {})
        /\ Candidates # {} => \E c \in Maximal : CandPolicy(c).meta = Selected

\* The selected candidate is declared after a matching, less specific one: in
\* an earlier route, or earlier in its route.
MaximalSpecificityWitness ==
    /\ Routed
    /\ \E c \in Maximal :
          /\ CandPolicy(c).meta = Selected
          /\ \E d \in Candidates : d[1] < c[1] /\ HttpRouteMatchLess(CandMatch(d), CandMatch(c))
          /\ \E d \in Candidates : d[1] = c[1] /\ d[2] < c[2]
                                      /\ HttpRouteMatchLess(CandMatch(d), CandMatch(c))

\* Candidate c is declared before candidate d.
Before(c, d) == c[1] < d[1] \/ (c[1] = d[1] /\ c[2] < d[2])

\* C8: of the most specific matching candidates, find returns the one
\* declared first: the earliest route, and the earliest rule of that route.
FirstDeclaredTieBreak ==
    Routed =>
        \E c \in Maximal :
            /\ CandPolicy(c).meta = Selected
            /\ \A d \in Maximal : d = c \/ Before(c, d)

FirstDeclaredWitness ==
    /\ Routed
    /\ \E c \in Maximal :
          /\ CandPolicy(c).meta = Selected
          /\ \E d \in Maximal : d[1] = c[1] /\ c[2] < d[2]
          /\ \E d \in Maximal : c[1] < d[1]

\* C9: a call emits no record before it decides and exactly one when it
\* returns: allow with a permit, deny with Unauthorized, route_not_found with
\* RouteNotFound.
OneRecordPerDecision ==
    /\ pc = "lookup" => metrics = <<>>
    /\ Done =>
         /\ Len(metrics) = 1
         /\ (metrics[1].kind = "allow") = result.val.ok
         /\ (metrics[1].kind = "deny") = (Kind(result.val) = "HttpRouteUnauthorized")
         /\ (metrics[1].kind = "route_not_found") = (Kind(result.val) = "HttpRouteNotFound")
         /\ result.val.ok => metrics[1].permit = result.val.val

OneRecordWitness ==
    /\ Done
    /\ Kind(result.val) = "HttpRouteNotFound"
    /\ routes.some /\ routes.val.routes # <<>>
    /\ prev.some /\ prev.val.kind = "Permit"

\* C10: the policy that ingestion accepted for an HTTP or gRPC protocol has a
\* route table that is not empty.
IngestedHttpHasRoutes ==
    server.protocol.kind \in HttpKinds \cup {"Grpc"} => server.protocol.routes # <<>>

\* The host part and the request part of the match of candidate c.
HostRankOf(c) == OptHostRank(CandMatch(c).host)
RequestRankOf(c) == RequestMatchRank(CandMatch(c).request)

\* C11: the host match is compared before the request match: no matching
\* candidate has a more specific host match than the one find returns (a
\* matching host above no host constraint, a more specific host above a less
\* specific one), however specific its rule match is, and the request match
\* decides only among the candidates whose host match equals the selected one.
HostBeforeRequest ==
    Routed =>
        \E c \in Candidates :
            /\ CandPolicy(c).meta = Selected
            /\ \A d \in Candidates :
                  /\ ~LexLess(HostRankOf(c), HostRankOf(d))
                  /\ HostRankOf(d) = HostRankOf(c) =>
                        ~LexLess(RequestRankOf(c), RequestRankOf(d))

\* The selected candidate has a host match; a route declared before it matches
\* without host constraints and with a more specific rule, and a candidate
\* with a less specific host match has a more specific rule match.
HostBeforeRequestWitness ==
    /\ Routed
    /\ \E c \in Candidates :
          /\ CandPolicy(c).meta = Selected
          /\ CandMatch(c).host.some
          /\ \E d \in Candidates :
                /\ d[1] < c[1]
                /\ LexLess(HostRankOf(d), HostRankOf(c))
                /\ LexLess(RequestRankOf(c), RequestRankOf(d))

\* The authorization list of the route that the record of the call names.
SelectedAuthorizations ==
    CandPolicy(CHOOSE c \in Candidates : CandPolicy(c).meta = Selected).authorizations

\* The entries of the list that authorize the connection.
Authorizing(l) == {k \in 1..Len(l) : IsAuthorized(l[k], Conn.client, Conn.tls)}

\* C12: the authorization that the permit and the allow record name is the
\* first entry of the selected route's list, in declaration order, that
\* authorizes the connection; the list cut after that entry reports the same.
FirstAuthorizingReported ==
    (Routed /\ result.val.ok) =>
        LET l == SelectedAuthorizations
            k == CHOOSE n \in Authorizing(l) : \A j \in Authorizing(l) : n <= j
            cut == [meta |-> Selected, authorizations |-> SubSeq(l, 1, k)]
        IN  /\ Authorizing(l) # {}
            /\ result.val.val.labels.authz = l[k].meta
            /\ metrics[1].kind = "allow"
            /\ metrics[1].permit.labels.authz = l[k].meta
            /\ AuthorizeRoute(cut, Conn, snap).res = result.val

\* Two entries of different names authorize the connection, and the permit
\* names the earlier one.
FirstAuthorizingWitness ==
    /\ Routed
    /\ result.val.ok
    /\ LET l == SelectedAuthorizations
       IN  \E k \in Authorizing(l) : \E j \in Authorizing(l) :
              /\ k < j
              /\ l[k].meta # l[j].meta
              /\ result.val.val.labels.authz = l[k].meta

\* The candidate that route lookup selects: the first declared of the most
\* specific ones.
BestCandidate == CHOOSE c \in Maximal : \A d \in Maximal : d = c \/ Before(c, d)

\* C13: when no authorization of the route selected by lookup authorizes the
\* connection the call fails Unauthorized, records a deny that names that
\* route and creates no inner service, whatever the other matching routes and
\* the server's own list would authorize; a permit names the selected route
\* and an entry of its list.
NoFallbackAuthorization ==
    Routed =>
        LET p == CandPolicy(BestCandidate)
        IN  /\ ~SomeAuthorizes(p.authorizations) =>
                  /\ Kind(result.val) = "HttpRouteUnauthorized"
                  /\ inner = <<>>
                  /\ metrics[1].kind = "deny"
                  /\ metrics[1].labels.route = p.meta
            /\ result.val.ok =>
                  /\ result.val.val.labels.route.route = p.meta
                  /\ \E k \in Authorizing(p.authorizations) :
                        result.val.val.labels.authz = p.authorizations[k].meta

\* The call fails Unauthorized while another route that matches the request
\* and the server's own list would both authorize the connection.
NoFallbackWitness ==
    /\ Routed
    /\ Kind(result.val) = "HttpRouteUnauthorized"
    /\ inner = <<>>
    /\ SomeAuthorizes(server.authorizations)
    /\ \E d \in Candidates :
          /\ d[1] # BestCandidate[1]
          /\ SomeAuthorizes(CandPolicy(d).authorizations)

\* The other route is less specific and declared first.
LessSpecificOther ==
    NoFallbackWitness /\ \E d \in Candidates \ Maximal :
        d[1] < BestCandidate[1] /\ SomeAuthorizes(CandPolicy(d).authorizations)
\* The other route is equally specific and declared later.
EquallySpecificOther ==
    NoFallbackWitness /\ \E d \in Maximal :
        BestCandidate[1] < d[1] /\ SomeAuthorizes(CandPolicy(d).authorizations)

====
